---- MODULE Spec2Model ----
(***************************************************************************)
(* Model of the sprite launcher (src/sprite_cli/main.py): one run of       *)
(* main(), from reading sys.argv to the value main() returns or the        *)
(* exception that leaves it.  The host (search path, conventional install  *)
(* paths, the probed binary, the network, the install script, the          *)
(* delegated binary, interrupts) is the nondeterministic environment.      *)
(***************************************************************************)
EXTENDS Integers, Sequences, FiniteSets, TLC

VARIABLES
    argv,        \* sys.argv, program name first
    env,         \* host state: shutil.which("sprite") and the existing conventional paths
    pc,          \* position of the single thread
    sprite_path, \* ensure_sprite_installed / install_sprite local: last locator result
    resolved,    \* run_sprite local sprite_path: what ensure_sprite_installed returned
    probeResult, \* outcome of the health probe subprocess, or NoResult
    tmp,         \* the installer's temporary script file
    result,      \* install_sprite local: the install script's CompletedProcess, or NoResult
    spawned,     \* command vector handed to the delegated subprocess.run, <<>> if none
    delegateResult, \* outcome of the delegated subprocess.run, or NoResult
    ret,         \* <<n>> once main() returned n, <<>> before
    escaped,     \* class of the exception that left main(), "none" if none
    out,         \* lines printed, as <<tag, payload>>
    log          \* external operations performed, in order, as <<op, detail>>

vars == <<argv, env, pc, sprite_path, resolved, probeResult, tmp, result,
          spawned, delegateResult, ret, escaped, out, log>>

----------------------------------------------------------------------------
(* Bounds and input domains *)

MaxArgs == 2

None == "None"

SPRITE_VERSION == "0.1.0"

VersionFlags == {"--version", "-V"}

HelpFlags == {"--help", "-h"}

Tokens == VersionFlags \cup HelpFlags \cup {"start"}

ArgVectors == {<<"sprite">> \o a : a \in UNION {[1..k -> Tokens] : k \in 0..MaxArgs}}

\* get_sprite_binary_path: the conventional paths, in the order of the list
paths == << "~/.cargo/bin/sprite", "~/.local/bin/sprite",
            "/usr/local/bin/sprite", "/usr/bin/sprite" >>

ConvPaths == {paths[i] : i \in DOMAIN paths}

\* what shutil.which("sprite") can give: nothing, a hit in a directory that is
\* not a conventional one, or a hit that is one of the conventional paths
WhichResults == {None, "/opt/sprite/bin/sprite", "/usr/bin/sprite"}

Envs == {e \in [which : WhichResults, exist : SUBSET ConvPaths] :
            e.which \in ConvPaths => e.which \in e.exist}

----------------------------------------------------------------------------
(* Python exception classes met by the launcher and their base classes *)

Bases(exc) ==
    CASE exc = "TimeoutExpired"     -> {"TimeoutExpired", "SubprocessError", "Exception", "BaseException"}
      [] exc = "FileNotFoundError"  -> {"FileNotFoundError", "OSError", "Exception", "BaseException"}
      [] exc = "PermissionError"    -> {"PermissionError", "OSError", "Exception", "BaseException"}
      [] exc = "OSError"            -> {"OSError", "Exception", "BaseException"}
      [] exc = "URLError"           -> {"URLError", "OSError", "Exception", "BaseException"}
      [] exc = "HTTPError"          -> {"HTTPError", "URLError", "OSError", "Exception", "BaseException"}
      [] exc = "UnicodeDecodeError" -> {"UnicodeDecodeError", "ValueError", "Exception", "BaseException"}
      [] exc = "KeyboardInterrupt"  -> {"KeyboardInterrupt", "BaseException"}
      [] OTHER                      -> {}

\* an except clause naming the classes in `classes` catches exc
Catches(classes, exc) == Bases(exc) \cap classes # {}

NoResult == [exc |-> "unset", rc |-> 0, stderr |-> ""]

Completed(rc, err) == [exc |-> "none", rc |-> rc, stderr |-> err]

Raised(exc) == [exc |-> exc, rc |-> 0, stderr |-> ""]

NoFile == [exists |-> FALSE, content |-> "none", closed |-> FALSE, exec |-> FALSE]

----------------------------------------------------------------------------
(* Decisions taken by the code, as operators *)

\* variant: the flag is honoured only when it is the sole argument
IsVersionRequest_SoleArgument(a) == Len(a) = 2 /\ a[2] \in VersionFlags

\* main: `len(sys.argv) > 1 and sys.argv[1] in ["--version", "-V"]`
IsVersionRequest(a) == Len(a) > 1 /\ a[2] \in VersionFlags

\* main: `len(sys.argv) > 1 and sys.argv[1] in ["--help", "-h"]`
IsHelpRequest(a) == Len(a) > 1 /\ a[2] \in HelpFlags

\* variant: the slice starts one element too far
ForwardedArgs_OffByOne(a) == SubSeq(a, 3, Len(a))

\* main: `sys.argv[1:]`
ForwardedArgs(a) == SubSeq(a, 2, Len(a))

\* variant: the loop over the list does not stop at the first existing path
get_sprite_binary_path_LastMatch(e) ==
    IF e.which # None THEN e.which
    ELSE IF \E i \in DOMAIN paths : paths[i] \in e.exist
         THEN paths[CHOOSE i \in DOMAIN paths :
                        /\ paths[i] \in e.exist
                        /\ \A j \in DOMAIN paths : paths[j] \in e.exist => j <= i]
         ELSE None

\* get_sprite_binary_path: the search-path hit, else the first conventional
\* path that exists, else None
get_sprite_binary_path(e) ==
    IF e.which # None THEN e.which
    ELSE IF \E i \in DOMAIN paths : paths[i] \in e.exist
         THEN paths[CHOOSE i \in DOMAIN paths :
                        /\ paths[i] \in e.exist
                        /\ \A j \in DOMAIN paths : paths[j] \in e.exist => i <= j]
         ELSE None

\* variant: the test for None is missing
ShouldProbe_NoNoneTest(p, ex) == ex

\* ensure_sprite_installed: `if sprite_path and sprite_path.exists()`
ShouldProbe(p, ex) == p # None /\ ex

\* variant: the comparison is inverted
ProbeSucceeded_Inverted(r) == r.exc = "none" /\ r.rc # 0

\* ensure_sprite_installed: `if result.returncode == 0` on a probe that returned
ProbeSucceeded(r) == r.exc = "none" /\ r.rc = 0

\* ensure_sprite_installed: `except (TimeoutExpired, SubprocessError, FileNotFoundError)`
ProbeHandled(exc) == Catches({"TimeoutExpired", "SubprocessError", "FileNotFoundError"}, exc)

\* variant: the clause names OSError instead of Exception
InstallHandled_OnlyOSError(exc) == Catches({"OSError"}, exc)

\* install_sprite: `except Exception as e`
InstallHandled(exc) == Catches({"Exception"}, exc)

\* variant: the exit status of the script is not looked at
ScriptSucceeded_Always(r) == TRUE

\* install_sprite: `if result.returncode == 0`
ScriptSucceeded(r) == r.rc = 0

\* run_sprite: `[str(sprite_path)] + args`
Command(p, args) == <<p>> \o args

\* variant: a non-zero status of the binary is flattened to 1
RunSpriteCode_Flattened(r) ==
    IF r.exc = "none" THEN (IF r.rc = 0 THEN <<0>> ELSE <<1>>)
    ELSE IF Catches({"KeyboardInterrupt"}, r.exc) THEN <<130>>
    ELSE IF Catches({"Exception"}, r.exc) THEN <<1>>
    ELSE <<>>

\* variant: the `except KeyboardInterrupt` clause is missing
RunSpriteCode_NoInterruptClause(r) ==
    IF r.exc = "none" THEN <<r.rc>>
    ELSE IF Catches({"Exception"}, r.exc) THEN <<1>>
    ELSE <<>>

\* run_sprite: the try block's value; <<>> when no clause catches the exception
RunSpriteCode(r) ==
    IF r.exc = "none" THEN <<r.rc>>
    ELSE IF Catches({"KeyboardInterrupt"}, r.exc) THEN <<130>>
    ELSE IF Catches({"Exception"}, r.exc) THEN <<1>>
    ELSE <<>>

\* run_sprite: the line printed by the clause that catches the exception
RunSpriteMessage(r) ==
    IF r.exc = "none" THEN <<>>
    ELSE IF Catches({"KeyboardInterrupt"}, r.exc) THEN << <<"ack", "Interrupted by user">> >>
    ELSE IF Catches({"Exception"}, r.exc) THEN << <<"error_running", r.exc>> >>
    ELSE <<>>

\* `sys.exit(main())`: the process exit status for a returned value
ExitStatus(n) == n % 256

----------------------------------------------------------------------------
(* What the environment can answer *)

\* the probe `[sprite_path, "--version"]` with timeout=10
ProbeResults == {Completed(0, ""), Completed(1, "")}
                \cup {Raised(x) : x \in {"TimeoutExpired", "FileNotFoundError",
                                         "PermissionError", "OSError"}}

\* NamedTemporaryFile(...)
CreateResults == {"ok", "OSError"}

\* urlopen(INSTALL_SCRIPT_URL) ... read().decode('utf-8')
FetchResults == {"ok", "URLError", "HTTPError", "UnicodeDecodeError"}

\* f.write(script_content) and the close at the end of the with block
WriteResults == {"ok", "OSError"}

StderrTexts == {"", "error: cargo not found"}

\* subprocess.run([script_path], capture_output=True, text=True)
ScriptResults == {Completed(rc, e) : rc \in {0, 1}, e \in StderrTexts}
                 \cup {Raised("OSError")}

\* subprocess.run([str(sprite_path)] + args): an exit status, death by a
\* signal (negative returncode), or an exception
DelegateResults == {Completed(rc, "") : rc \in {0, 1, 2, 130, 255, -9}}
                   \cup {Raised(x) : x \in {"KeyboardInterrupt", "FileNotFoundError",
                                            "PermissionError"}}

----------------------------------------------------------------------------
(* Control transfers shared by the actions *)

\* go on to the next statement, having printed up to o
Continue(next, o) ==
    /\ pc' = next
    /\ out' = o
    /\ UNCHANGED <<resolved, ret, escaped>>

\* an exception no clause catches leaves main()
Propagate(exc, o) ==
    /\ pc' = "done"
    /\ escaped' = exc
    /\ out' = o
    /\ UNCHANGED <<resolved, ret>>

\* variant: run_sprite starts over when no path came back (a few times)
EnsureReturns_Retry(v, o) ==
    /\ resolved' = v
    /\ escaped' = escaped
    /\ IF v = None
       THEN IF Len(log) < 24
            THEN out' = o /\ ret' = ret /\ pc' = "resolve"
            ELSE /\ out' = Append(o, <<"error", "Failed to install or find sprite">>)
                 /\ ret' = <<1>>
                 /\ pc' = "done"
       ELSE /\ out' = o
            /\ ret' = ret
            /\ pc' = "delegate"

\* variant: run_sprite does not test what came back
EnsureReturns_NoNoneTest(v, o) ==
    /\ resolved' = v
    /\ escaped' = escaped
    /\ out' = o
    /\ ret' = ret
    /\ pc' = "delegate"

\* ensure_sprite_installed returns v to run_sprite, which tests `if not sprite_path`
EnsureReturns(v, o) ==
    /\ resolved' = v
    /\ escaped' = escaped
    /\ IF v = None
       THEN /\ out' = Append(o, <<"error", "Failed to install or find sprite">>)
            /\ ret' = <<1>>
            /\ pc' = "done"
       ELSE /\ out' = o
            /\ ret' = ret
            /\ pc' = "delegate"

\* an exception raised inside install_sprite's try block
InstallRaises(exc, o) ==
    IF InstallHandled(exc)
    THEN EnsureReturns(None, Append(o, <<"install_failed", exc>>))
    ELSE Propagate(exc, o)

\* ensure_sprite_installed falls through to `return install_sprite()`
EnterInstall(l) ==
    /\ log' = Append(l, <<"install", "">>)
    /\ Continue("i_create", Append(out, <<"info", "Installing Sprite Multi-Agent Toolkit">>))

----------------------------------------------------------------------------
(* Initial state and actions *)

Init ==
    /\ argv \in ArgVectors
    /\ env \in Envs
    /\ pc = "start"
    /\ sprite_path = None
    /\ resolved = None
    /\ probeResult = NoResult
    /\ tmp = NoFile
    /\ result = NoResult
    /\ spawned = <<>>
    /\ delegateResult = NoResult
    /\ ret = <<>>
    /\ escaped = "none"
    /\ out = <<>>
    /\ log = <<>>

\* main: the version flag
MainVersion ==
    /\ pc = "start"
    /\ IsVersionRequest(argv)
    /\ pc' = "done"
    /\ ret' = <<0>>
    /\ out' = Append(out, <<"version", SPRITE_VERSION>>)
    /\ UNCHANGED <<argv, env, sprite_path, resolved, probeResult, tmp, result,
                   spawned, delegateResult, escaped, log>>

\* main: the help flag
MainHelp ==
    /\ pc = "start"
    /\ ~IsVersionRequest(argv)
    /\ IsHelpRequest(argv)
    /\ pc' = "done"
    /\ ret' = <<0>>
    /\ out' = Append(out, <<"usage", "">>)
    /\ UNCHANGED <<argv, env, sprite_path, resolved, probeResult, tmp, result,
                   spawned, delegateResult, escaped, log>>

\* main: `return run_sprite(sys.argv[1:])`, up to the call of get_sprite_binary_path
MainRun ==
    /\ pc = "start"
    /\ ~IsVersionRequest(argv)
    /\ ~IsHelpRequest(argv)
    /\ pc' = "resolve"
    /\ UNCHANGED <<argv, env, sprite_path, resolved, probeResult, tmp, result,
                   spawned, delegateResult, ret, escaped, out, log>>

\* ensure_sprite_installed: the locator call and the test that follows it; the
\* file a search-path or conventional-path hit names may be gone again when
\* `sprite_path.exists()` looks (ex)
Resolve ==
    /\ pc = "resolve"
    /\ \E ex \in BOOLEAN :
         LET p == get_sprite_binary_path(env)
             l == Append(log, <<"locate", p>>)
         IN /\ sprite_path' = p
            /\ IF ShouldProbe(p, ex)
               THEN log' = l /\ Continue("probe", out)
               ELSE EnterInstall(l)
    /\ UNCHANGED <<argv, env, probeResult, tmp, result, spawned, delegateResult>>

\* ensure_sprite_installed: the health probe and its try/except
Probe ==
    /\ pc = "probe"
    /\ \E r \in ProbeResults :
         LET l == Append(log, <<"probe", sprite_path>>)
         IN /\ probeResult' = r
            /\ IF r.exc = "none"
               THEN IF ProbeSucceeded(r)
                    THEN log' = l /\ EnsureReturns(sprite_path, out)
                    ELSE EnterInstall(l)
               ELSE IF ProbeHandled(r.exc)
                    THEN EnterInstall(l)
                    ELSE log' = l /\ Propagate(r.exc, out)
    /\ UNCHANGED <<argv, env, sprite_path, tmp, result, spawned, delegateResult>>

\* install_sprite: NamedTemporaryFile(mode='w', suffix='.sh', delete=False)
ICreate ==
    /\ pc = "i_create"
    /\ \E c \in CreateResults :
         IF c = "ok"
         THEN /\ tmp' = [exists |-> TRUE, content |-> "empty", closed |-> FALSE, exec |-> FALSE]
              /\ log' = Append(log, <<"create_tmp", "">>)
              /\ Continue("i_fetch", Append(out, <<"info", "Downloading installation script">>))
         ELSE /\ tmp' = tmp
              /\ log' = log
              /\ InstallRaises(c, out)
    /\ UNCHANGED <<argv, env, sprite_path, probeResult, result, spawned, delegateResult>>

\* install_sprite: urlopen, read and decode, inside the with block of the file;
\* an exception leaves the with block, which closes the file and keeps it
IFetch ==
    /\ pc = "i_fetch"
    /\ \E f \in FetchResults :
         /\ log' = Append(log, <<"fetch", f>>)
         /\ IF f = "ok"
            THEN /\ tmp' = tmp
                 /\ Continue("i_write", out)
            ELSE /\ tmp' = [tmp EXCEPT !.closed = TRUE]
                 /\ InstallRaises(f, out)
    /\ UNCHANGED <<argv, env, sprite_path, probeResult, result, spawned, delegateResult>>

\* variant: the script is run right after the write, without the chmod
IWrite_SkipsChmod ==
    /\ pc = "i_write"
    /\ \E w \in WriteResults :
         IF w = "ok"
         THEN /\ tmp' = [tmp EXCEPT !.content = "full", !.closed = TRUE]
              /\ log' = Append(log, <<"write", "">>)
              /\ Continue("i_exec", out)
         ELSE /\ tmp' = [tmp EXCEPT !.content = "partial", !.closed = TRUE]
              /\ log' = log
              /\ InstallRaises(w, out)
    /\ UNCHANGED <<argv, env, sprite_path, probeResult, result, spawned, delegateResult>>

\* install_sprite: f.write(script_content), script_path = f.name, end of the with block
IWrite ==
    /\ pc = "i_write"
    /\ \E w \in WriteResults :
         IF w = "ok"
         THEN /\ tmp' = [tmp EXCEPT !.content = "full", !.closed = TRUE]
              /\ log' = Append(log, <<"write", "">>)
              /\ Continue("i_chmod", out)
         ELSE /\ tmp' = [tmp EXCEPT !.content = "partial", !.closed = TRUE]
              /\ log' = log
              /\ InstallRaises(w, out)
    /\ UNCHANGED <<argv, env, sprite_path, probeResult, result, spawned, delegateResult>>

\* install_sprite: os.chmod(script_path, 0o755)
IChmod ==
    /\ pc = "i_chmod"
    /\ tmp' = [tmp EXCEPT !.exec = TRUE]
    /\ log' = Append(log, <<"chmod", "">>)
    /\ Continue("i_exec", out)
    /\ UNCHANGED <<argv, env, sprite_path, probeResult, result, spawned, delegateResult>>

\* install_sprite: subprocess.run([script_path], capture_output=True, text=True).
\* The host refuses to execute a file that is missing, open for writing or not
\* executable; a script that ran may have changed the host in any way.
IExec ==
    /\ pc = "i_exec"
    /\ \E r \in ScriptResults, e \in Envs :
         LET o == Append(out, <<"info", "Running installation">>)
         IN /\ (r.exc = "none" => tmp.exists /\ tmp.closed /\ tmp.exec)
            /\ log' = Append(log, <<"exec", r.exc>>)
            /\ IF r.exc = "none"
               THEN /\ result' = r
                    /\ env' = e
                    /\ Continue("i_unlink", o)
               ELSE /\ result' = result
                    /\ env' = env
                    /\ InstallRaises(r.exc, o)
    /\ UNCHANGED <<argv, sprite_path, probeResult, tmp, spawned, delegateResult>>

\* install_sprite: os.unlink(script_path)
IUnlink ==
    /\ pc = "i_unlink"
    /\ tmp' = [tmp EXCEPT !.exists = FALSE]
    /\ log' = Append(log, <<"unlink", "">>)
    /\ Continue("i_check", out)
    /\ UNCHANGED <<argv, env, sprite_path, probeResult, result, spawned, delegateResult>>

\* install_sprite: the test of result.returncode; time.sleep(2) on success
ICheck ==
    /\ pc = "i_check"
    /\ IF ScriptSucceeded(result)
       THEN /\ log' = Append(log, <<"sleep", "2">>)
            /\ Continue("i_relocate", Append(out, <<"info", "Sprite installed successfully">>))
       ELSE /\ log' = log
            /\ EnsureReturns(None, out \o << <<"error", "Installation failed:">>,
                                            <<"stderr", result.stderr>> >>)
    /\ UNCHANGED <<argv, env, sprite_path, probeResult, tmp, result, spawned, delegateResult>>

\* install_sprite: the locator call after a successful script
IRelocate ==
    /\ pc = "i_relocate"
    /\ LET p == get_sprite_binary_path(env)
       IN /\ sprite_path' = p
          /\ log' = Append(log, <<"locate", p>>)
          /\ IF p # None
             THEN EnsureReturns(p, out)
             ELSE EnsureReturns(None, out \o
                      << <<"warning", "Installation completed but sprite binary not found in PATH">>,
                         <<"warning", "Please restart your terminal or add ~/.cargo/bin to your PATH">> >>)
    /\ UNCHANGED <<argv, env, probeResult, tmp, result, spawned, delegateResult>>

\* run_sprite: the delegated subprocess.run and its try/except
Delegate ==
    /\ pc = "delegate"
    /\ \E r \in DelegateResults :
         /\ spawned' = Command(resolved, ForwardedArgs(argv))
         /\ delegateResult' = r
         /\ log' = Append(log, <<"spawn", resolved>>)
         /\ IF RunSpriteCode(r) = <<>>
            THEN Propagate(r.exc, out)
            ELSE /\ ret' = RunSpriteCode(r)
                 /\ out' = out \o RunSpriteMessage(r)
                 /\ pc' = "done"
                 /\ UNCHANGED <<resolved, escaped>>
    /\ UNCHANGED <<argv, env, sprite_path, probeResult, tmp, result>>

\* the positions where the launcher is locating, probing or installing
EarlyPhase == {"resolve", "probe", "i_create", "i_fetch", "i_write", "i_chmod",
               "i_exec", "i_unlink", "i_check", "i_relocate"}

\* SIGINT before delegation: KeyboardInterrupt is raised at the current
\* statement and passes the except clauses around it (none around the locator,
\* line 55 around the probe, line 105 around the installer's steps); leaving
\* the with block closes a file that is still open
Interrupt ==
    /\ pc \in EarlyPhase
    /\ tmp' = IF tmp.exists THEN [tmp EXCEPT !.closed = TRUE] ELSE tmp
    /\ LET l == Append(log, <<"interrupt", pc>>)
       IN IF pc = "resolve"
          THEN log' = l /\ Propagate("KeyboardInterrupt", out)
          ELSE IF pc = "probe"
               THEN IF ProbeHandled("KeyboardInterrupt")
                    THEN EnterInstall(l)
                    ELSE log' = l /\ Propagate("KeyboardInterrupt", out)
               ELSE log' = l /\ InstallRaises("KeyboardInterrupt", out)
    /\ UNCHANGED <<argv, env, sprite_path, probeResult, result, spawned,
                   delegateResult>>

Next ==
    \/ MainVersion
    \/ MainHelp
    \/ MainRun
    \/ Resolve
    \/ Probe
    \/ ICreate
    \/ IFetch
    \/ IWrite
    \/ IChmod
    \/ IExec
    \/ IUnlink
    \/ ICheck
    \/ IRelocate
    \/ Delegate
    \/ Interrupt

Spec == Init /\ [][Next]_vars

----------------------------------------------------------------------------
(* History read off the log *)

Count(op) == Cardinality({i \in DOMAIN log : log[i][1] = op})

LocateCalls == Count("locate")

ProbeCalls == Count("probe")

InstallCalls == Count("install")

\* the path the health probe was run on, in a set
ProbedPaths == {log[i][2] : i \in {j \in DOMAIN log : log[j][1] = "probe"}}

\* the first locator call of the run returned None
FirstLocateAbsent == log # <<>> /\ log[1] = <<"locate", None>>

\* install_sprite was called and has returned to its caller
InstallReturned ==
    /\ InstallCalls > 0
    /\ \/ pc = "delegate"
       \/ pc = "done" /\ (escaped = "none" \/ spawned # <<>>)

\* the probe ran to an outcome and that outcome is a failure
ProbeFailed == probeResult.exc # "unset" /\ probeResult # Completed(0, "")

FlagFirst == Len(argv) > 1 /\ argv[2] \in {"--version", "-V", "--help", "-h"}

\* Start, Resolve, Probe, Install, Delegate, terminal
Phase(p) ==
    CASE p = "start"    -> 0
      [] p = "resolve"  -> 1
      [] p = "probe"    -> 2
      [] p = "delegate" -> 4
      [] p = "done"     -> 5
      [] OTHER          -> 3

----------------------------------------------------------------------------
(* Claims *)

\* C1: once the temporary script file has been created, no way install()
\* returns leaves the file on disk.
C1_TempFileNeverLeftBehind ==
    (Count("create_tmp") > 0 /\ InstallReturned) => ~tmp.exists

\* C2: every kind of health-probe failure (non-zero exit, timeout, any spawn
\* failure) leads to Install with the installer invoked exactly once; the run
\* neither delegates without install nor ends before Install.
C2_ProbeFailureInstalls ==
    ProbeFailed => (InstallCalls = 1 /\ log[Len(log)][1] # "probe")

\* C3: whenever the launcher delegates, the delegated path is one on which a
\* health probe succeeded during this run.
C3_DelegatesOnlyProbedPath ==
    spawned # <<>> => (probeResult = Completed(0, "") /\ spawned[1] \in ProbedPaths)

\* C4: when the first argument is --version, -V, --help or -h, main() returns 0
\* and the run does no locate, probe, fetch, install or delegation.
C4_FlagsShortCircuit ==
    FlagFirst =>
        /\ log = <<>>
        /\ spawned = <<>>
        /\ ~tmp.exists
        /\ escaped = "none"
        /\ pc \in {"start", "done"}
        /\ (pc = "done" => ret = <<0>>)

C4_Witness ==
    /\ pc = "done"
    /\ Len(argv) = 3
    /\ argv[2] = "-V"
    /\ argv[3] = "start"
    /\ ret = <<0>>

\* C5: when the probe on the located path succeeds, the installer is never
\* invoked (no fetch, no temporary file, no script run) and delegation goes to
\* that same path.
C5_HealthyBinaryNotReinstalled ==
    probeResult = Completed(0, "") =>
        /\ InstallCalls = 0
        /\ Count("create_tmp") = 0 /\ Count("fetch") = 0 /\ Count("exec") = 0
        /\ tmp = NoFile
        /\ ProbedPaths = {sprite_path}
        /\ resolved = sprite_path
        /\ pc \in {"delegate", "done"}
        /\ (spawned # <<>> => spawned[1] = sprite_path)

C5_Witness ==
    /\ probeResult = Completed(0, "")
    /\ spawned # <<>>
    /\ spawned[1] = "/usr/local/bin/sprite"
    /\ log = << <<"locate", "/usr/local/bin/sprite">>, <<"probe", "/usr/local/bin/sprite">>,
                <<"spawn", "/usr/local/bin/sprite">> >>

\* C6: when the first locator call returns absent, the installer is invoked
\* exactly once and no health probe runs before it (nor at all).
C6_AbsentInstallsOnce ==
    FirstLocateAbsent =>
        /\ Len(log) >= 2
        /\ log[2] = <<"install", "">>
        /\ InstallCalls = 1
        /\ ProbeCalls = 0
        /\ probeResult = NoResult

C6_Witness ==
    /\ FirstLocateAbsent
    /\ InstallCalls = 1
    /\ LocateCalls = 2
    /\ pc = "done"
    /\ spawned # <<>>

\* C7: in every run the installer is invoked at most once, the locator at most
\* twice (the second time only after an install script that exited zero) and
\* the probe at most once, and the phase never moves back.
C7_NoRetryLinearPhases ==
    /\ [](/\ InstallCalls <= 1
          /\ LocateCalls <= 2
          /\ ProbeCalls <= 1
          /\ (LocateCalls = 2 => result.exc = "none" /\ result.rc = 0 /\ InstallCalls = 1))
    /\ [][Phase(pc') >= Phase(pc)]_vars

C7_Witness ==
    /\ pc = "done"
    /\ ProbeCalls = 1
    /\ InstallCalls = 1
    /\ LocateCalls = 2
    /\ sprite_path = None
    /\ ret = <<1>>

\* C8: when the delegated binary runs to completion, the launcher returns the
\* binary's status unchanged, whatever the value; for an exit status the process
\* exit status is that value too.
C8_ExitCodeVerbatim ==
    delegateResult.exc = "none" =>
        /\ pc = "done"
        /\ escaped = "none"
        /\ ret = <<delegateResult.rc>>
        /\ (delegateResult.rc \in 0..255 => ExitStatus(ret[1]) = delegateResult.rc)

C8_Witness ==
    /\ delegateResult = Completed(255, "")
    /\ ret = <<255>>

\* C9: the binary is spawned with exactly the launcher's arguments after the
\* program name, in order and unmodified, flags in later positions included;
\* a run whose first argument is no version/help token prints neither the
\* version nor the usage.
C9_ArgsForwardedVerbatim ==
    /\ spawned # <<>> =>
          /\ ~FlagFirst
          /\ Len(spawned) = Len(argv)
          /\ spawned[1] = resolved
          /\ \A i \in 2..Len(argv) : spawned[i] = argv[i]
    /\ ~FlagFirst => \A i \in DOMAIN out : out[i][1] \notin {"version", "usage"}

C9_Witness ==
    /\ argv = <<"sprite", "start", "--help">>
    /\ spawned = <<resolved, "start", "--help">>
    /\ resolved # None

\* C10: an interrupt while waiting on the delegated binary ends the run with
\* 130 and the acknowledgment; any other exception of the delegation ends it
\* with 1 and the failure message; nothing raised there leaves main().
C10_DelegationExceptions ==
    /\ delegateResult.exc = "KeyboardInterrupt" =>
          /\ ret = <<130>>
          /\ out[Len(out)] = <<"ack", "Interrupted by user">>
    /\ delegateResult.exc \notin {"unset", "none", "KeyboardInterrupt"} =>
          /\ ret = <<1>>
          /\ out[Len(out)] = <<"error_running", delegateResult.exc>>
    /\ spawned # <<>> => (pc = "done" /\ escaped = "none" /\ ret # <<>>)

C10_Witness ==
    /\ delegateResult = Raised("KeyboardInterrupt")
    /\ ret = <<130>>
    /\ pc = "done"

\* the install script ran to completion with a non-zero / zero exit status
ScriptFailed == result.exc = "none" /\ result.rc # 0

ScriptExitedZero == result.exc = "none" /\ result.rc = 0

\* C11: after an install script that exits non-zero the locator is not re-run
\* and nothing is delegated; the installer prints the failure line followed by
\* the script's standard error unchanged, and the launcher returns 1.
C11_ScriptFailureSurfaced ==
    ScriptFailed =>
        /\ LocateCalls = 1
        /\ Count("sleep") = 0
        /\ spawned = <<>>
        /\ pc # "delegate"
        /\ (pc = "done" /\ escaped = "none") =>
              /\ ret = <<1>>
              /\ resolved = None
              /\ Len(out) >= 3
              /\ out[Len(out) - 2] = <<"error", "Installation failed:">>
              /\ out[Len(out) - 1] = <<"stderr", result.stderr>>
              /\ out[Len(out)] = <<"error", "Failed to install or find sprite">>

C11_Witness ==
    /\ result = Completed(1, "error: cargo not found")
    /\ pc = "done"
    /\ ret = <<1>>
    /\ out[Len(out) - 1] = <<"stderr", "error: cargo not found">>

\* C12: after an install script that exits zero, a re-locate that finds nothing
\* makes the installer print the advisory and yield no path without raising,
\* and the launcher returns 1 with no delegation and no second install; a
\* re-locate that finds a path yields that path and the launcher delegates to it.
C12_RelocateDecides ==
    (ScriptExitedZero /\ LocateCalls = 2) =>
        /\ log[Len(log)] = <<"locate", sprite_path>> \/ log[Len(log)] = <<"spawn", sprite_path>>
        /\ InstallCalls = 1
        /\ escaped = "none"
        /\ \A i \in DOMAIN out : out[i][1] # "install_failed"
        /\ IF sprite_path = None
           THEN /\ pc = "done"
                /\ ret = <<1>>
                /\ resolved = None
                /\ spawned = <<>>
                /\ out[Len(out) - 2] =
                     <<"warning", "Installation completed but sprite binary not found in PATH">>
                /\ out[Len(out) - 1] =
                     <<"warning", "Please restart your terminal or add ~/.cargo/bin to your PATH">>
           ELSE /\ resolved = sprite_path
                /\ pc \in {"delegate", "done"}
                /\ (pc = "done" => spawned # <<>> /\ spawned[1] = sprite_path)

C12_Witness ==
    /\ ScriptExitedZero
    /\ LocateCalls = 2
    /\ ProbeCalls = 0
    /\ sprite_path = None
    /\ ret = <<1>>
    /\ out[Len(out)] = <<"error", "Failed to install or find sprite">>

\* C13: the locator returns the search-path hit when there is one, else the
\* first existing path in the order ~/.cargo/bin, ~/.local/bin, /usr/local/bin,
\* /usr/bin, else absent, for every host state; a locator call leaves the host
\* (search path, conventional paths, temporary file) as it was.
C13_LocateOrder ==
    /\ []((LocateCalls >= 1 /\ (Count("exec") = 0 \/ LocateCalls = 2)) =>
            sprite_path =
              IF env.which # None THEN env.which
              ELSE IF "~/.cargo/bin/sprite" \in env.exist THEN "~/.cargo/bin/sprite"
              ELSE IF "~/.local/bin/sprite" \in env.exist THEN "~/.local/bin/sprite"
              ELSE IF "/usr/local/bin/sprite" \in env.exist THEN "/usr/local/bin/sprite"
              ELSE IF "/usr/bin/sprite" \in env.exist THEN "/usr/bin/sprite"
              ELSE None)
    /\ [][LocateCalls' > LocateCalls => (env' = env /\ tmp' = tmp)]_vars

C13_Witness ==
    /\ LocateCalls = 2
    /\ env = [which |-> None, exist |-> {"~/.local/bin/sprite", "/usr/bin/sprite"}]
    /\ sprite_path = "~/.local/bin/sprite"
    /\ log[1] = <<"locate", "/opt/sprite/bin/sprite">>

\* the fetch of the install script was attempted and failed
FetchFailed == \E i \in DOMAIN log : log[i][1] = "fetch" /\ log[i][2] # "ok"

\* C14: when fetching the install script fails (network error, non-2xx
\* response, decode error) the installer stops there: no script is executed,
\* the locator is not re-run, the failure is printed with the error that was
\* raised, no path is yielded and the launcher returns 1.
C14_FetchFailureAborts ==
    FetchFailed =>
        /\ log[Len(log)][1] = "fetch"
        /\ Count("exec") = 0
        /\ Count("write") = 0
        /\ LocateCalls = 1
        /\ result = NoResult
        /\ spawned = <<>>
        /\ resolved = None
        /\ pc = "done"
        /\ escaped = "none"
        /\ ret = <<1>>
        /\ out[Len(out) - 1] = <<"install_failed", log[Len(log)][2]>>
        /\ out[Len(out)] = <<"error", "Failed to install or find sprite">>

C14_Witness ==
    /\ FetchFailed
    /\ log[Len(log)] = <<"fetch", "UnicodeDecodeError">>
    /\ ret = <<1>>
    /\ out[Len(out) - 1] = <<"install_failed", "UnicodeDecodeError">>

\* SIGINT arrived while the launcher was locating, probing or installing
InterruptedEarly == \E i \in DOMAIN log : log[i][1] = "interrupt"

\* C15: an interrupt during the locate, probe or install phase is not answered
\* with the acknowledgment and 130: the run ends as a generic failure, with a
\* failure message and code 1, and never delegates.
C15_EarlyInterruptIsGenericFailure ==
    InterruptedEarly =>
        /\ pc = "done"
        /\ spawned = <<>>
        /\ \A i \in DOMAIN out : out[i][1] # "ack"
        /\ ret = <<1>>
        /\ escaped = "none"
        /\ out # <<>>
        /\ out[Len(out)][1] \in {"error", "install_failed", "error_running"}

\* the positions in the log of the operation op
Pos(op) == {i \in DOMAIN log : log[i][1] = op}

\* C16: inside install() the script is executed only after the fetched content
\* was written in full, the file closed and made executable; the file is
\* deleted before the exit status is examined; the locator is re-run only
\* after the deletion and only when the exit status was zero.
C16_InstallStepOrder ==
    /\ \A x \in Pos("exec") :
          \E f \in Pos("fetch"), w \in Pos("write"), c \in Pos("chmod") :
              /\ log[f] = <<"fetch", "ok">>
              /\ f < w /\ w < c /\ c < x
    /\ pc = "i_exec" =>
          (tmp.exists /\ tmp.content = "full" /\ tmp.closed /\ tmp.exec)
    /\ (\/ pc \in {"i_check", "i_relocate"}
        \/ Count("sleep") > 0
        \/ \E i \in DOMAIN out : out[i][1] = "stderr") =>
          /\ ~tmp.exists
          /\ \E x \in Pos("exec"), u \in Pos("unlink") :
                /\ x < u
                /\ \A k \in Pos("sleep") : u < k
    /\ \A l \in Pos("locate") :
          l > 1 => /\ result.exc = "none" /\ result.rc = 0
                   /\ ~tmp.exists
                   /\ \E u \in Pos("unlink") : u < l

C16_Witness ==
    log = << <<"locate", None>>, <<"install", "">>, <<"create_tmp", "">>,
             <<"fetch", "ok">>, <<"write", "">>, <<"chmod", "">>, <<"exec", "none">>,
             <<"unlink", "">>, <<"sleep", "2">>, <<"locate", "~/.cargo/bin/sprite">> >>

====
